---- MODULE Spec2Model ----
(***************************************************************************)
(* Model of the data-access layer of the poultry bookkeeping application   *)
(* (src/database.py) and of the forms that call it (src/app.py,            *)
(* src/money_management.py).                                               *)
(*                                                                         *)
(* The store is modelled as its tables.  Amounts are REAL columns in the   *)
(* source; they are modelled as integers (exact arithmetic).  The foreign  *)
(* keys declared in the DDL are not enforced: the application itself       *)
(* writes ledger rows naming user id 0, which is no row of users, and no   *)
(* method of the layer turns enforcement on.  cursor.lastrowid is taken to *)
(* be the id of the inserted row, as every caller assumes.                 *)
(***************************************************************************)
EXTENDS Integers, Sequences, FiniteSets, TLC

VARIABLES users, next_user_id,
          money_transactions, system_money,
          farmers, next_farmer_id,
          poultry_transactions, next_transaction_id, creation_payment,
          payment_history,
          expenses, next_expense_id,
          sessions,
          last

vars == <<users, next_user_id, money_transactions, system_money, farmers, next_farmer_id,
          poultry_transactions, next_transaction_id, creation_payment,
          payment_history, expenses, next_expense_id, sessions, last>>

userVars    == <<users, next_user_id>>
ledgerVars  == <<money_transactions, system_money>>
poultryVars == <<farmers, next_farmer_id, poultry_transactions,
                 next_transaction_id, creation_payment, payment_history>>
expenseVars == <<expenses, next_expense_id>>
sessionVars == <<sessions>>

----------------------------------------------------------------------------
(* Bounds of the model *)
MaxUsers == 2
MaxLedger == 2
MaxAmount == 2
MaxFarmers == 2
MaxPurchases == 1
MaxSales == 1
MaxQuantity == 2
MaxHistory == 2
MaxExpenses == 2
MaxPrice == 1
MaxPaid == 2
MaxPayment == 1
MaxSessions == 2

(* Program constants *)
SYSTEM == 0
NoId == 0
\* stands for Python's None where an optional number is left out
None == 0 - 1

PaymentAmounts == 0..MaxPayment

MaxTransactions == MaxPurchases + MaxSales

Usernames == {"admin", "ali"}
Roles == {"admin", "user"}
TransactionTypes == {"normal", "system_input", "distribution", "expense"}

\* passwords given when a user is created, and passwords tried at login
NewPasswords == {"hunter2"}
Passwords == NewPasswords \cup {"letmein"}

\* hashlib.sha256(password.encode()).hexdigest(): deterministic, and distinct
\* on the passwords of the model
Sha256Hex(password) == <<"sha256", password>>

UserIds == 1..MaxUsers
Parties == {SYSTEM} \cup UserIds

\* calls in flight, each on a connection of its own
Sessions == 1..MaxSessions

\* a connection on which no statement has been executed yet
Idle == [pc |-> "idle", op |-> "none", target |-> 0, to |-> 0, type |-> "none",
         amount |-> 0, seen |-> 0, total |-> 0]

----------------------------------------------------------------------------
(* Queries on the users table *)

\* SELECT role FROM users WHERE user_id = %s; "none" when fetchone() is None
RoleOf(us, id) ==
    IF \E u \in us : u.user_id = id
    THEN (CHOOSE u \in us : u.user_id = id).role
    ELSE "none"

IsAdmin(us, id) == RoleOf(us, id) = "admin"

AdminIds(us) == {u.user_id : u \in {v \in us : v.role = "admin"}}

SetMin(S) == CHOOSE x \in S : \A y \in S : x <= y

\* SELECT user_id FROM users WHERE role = 'admin' LIMIT 1: the first admin
\* row of the table, rows being stored in insertion (user_id) order
FirstAdmin(us) == SetMin(AdminIds(us))

----------------------------------------------------------------------------
(* Balances *)

RECURSIVE SumCase(_, _)
\* SUM(CASE WHEN to_user_id = p THEN amount WHEN from_user_id = p THEN -amount ELSE 0 END)
SumCase(mt, p) ==
    IF mt = << >> THEN 0
    ELSE LET r == Head(mt) IN
         (IF r.to_user_id = p THEN r.amount
          ELSE IF r.from_user_id = p THEN 0 - r.amount
          ELSE 0) + SumCase(Tail(mt), p)

get_user_balance(mt, user_id) == SumCase(mt, user_id)

RECURSIVE BalanceLoop(_, _, _)
\* the loop of get_balance over the rows naming user_id
BalanceLoop(mt, user_id, balance) ==
    IF mt = << >> THEN balance
    ELSE LET r  == Head(mt)
             b1 == IF r.to_user_id = user_id THEN balance + r.amount ELSE balance
             b2 == IF r.from_user_id = user_id THEN b1 - r.amount ELSE b1
         IN BalanceLoop(Tail(mt), user_id, b2)

get_balance(mt, user_id) == BalanceLoop(mt, user_id, 0)

get_system_money(us, mt) ==
    IF AdminIds(us) = {} THEN 0
    ELSE SumCase(mt, FirstAdmin(us))

----------------------------------------------------------------------------
Init ==
    /\ users = {}
    /\ next_user_id = 1
    /\ money_transactions = << >>
    /\ system_money = 0
    /\ farmers = {}
    /\ next_farmer_id = 1
    /\ poultry_transactions = {}
    /\ next_transaction_id = 1
    /\ creation_payment = << >>
    /\ payment_history = << >>
    /\ expenses = {}
    /\ next_expense_id = 1
    /\ sessions = [s \in Sessions |-> Idle]
    /\ last = [op |-> "init", ok |-> TRUE]

----------------------------------------------------------------------------
(* User management *)

\* add_user without the UNIQUE constraint on username
add_user_ok_any_name(us, username, creator) ==
    creator # NoId => IsAdmin(us, creator)

\* add_user(username, password, role, created_by_admin_id); creator = NoId
\* stands for created_by_admin_id = None (0 is falsy as well)
add_user_ok(us, username, creator) ==
    /\ (creator # NoId => IsAdmin(us, creator))
    /\ ~ \E u \in us : u.username = username

AddUser ==
    \E username \in Usernames, password \in NewPasswords, role \in Roles,
       creator \in {NoId} \cup UserIds :
        /\ next_user_id <= MaxUsers
        /\ IF add_user_ok(users, username, creator)
           THEN /\ users' = users \cup {[user_id |-> next_user_id,
                                        username |-> username,
                                        password_hash |-> Sha256Hex(password),
                                        role |-> role]}
                /\ next_user_id' = next_user_id + 1
           ELSE UNCHANGED userVars
        /\ last' = [op |-> "add_user", username |-> username, role |-> role,
                    password |-> password, creator |-> creator,
                    ok |-> add_user_ok(users, username, creator)]
        /\ UNCHANGED sessionVars
        /\ UNCHANGED <<ledgerVars, poultryVars, expenseVars>>

\* delete_user without the check that refuses an admin target
delete_user_ok_any_target(us, user_id, admin_id) ==
    /\ IsAdmin(us, admin_id)
    /\ \E u \in us : u.user_id = user_id

delete_user_ok(us, user_id, admin_id) ==
    /\ IsAdmin(us, admin_id)
    /\ ~ IsAdmin(us, user_id)
    /\ \E u \in us : u.user_id = user_id

DeleteUser ==
    \E user_id \in UserIds, admin_id \in Parties :
        /\ IF delete_user_ok(users, user_id, admin_id)
           THEN users' = {u \in users : u.user_id # user_id}
           ELSE users' = users
        /\ last' = [op |-> "delete_user", target |-> user_id, caller |-> admin_id,
                    ok |-> delete_user_ok(users, user_id, admin_id)]
        /\ UNCHANGED sessionVars
        /\ UNCHANGED <<next_user_id, ledgerVars, poultryVars, expenseVars>>

\* authenticate_user whose WHERE clause names the username only
authenticate_user_any_password(us, username, password) ==
    {[user_id |-> u.user_id, role |-> u.role] : u \in {v \in us : v.username = username}}

\* SELECT user_id, role FROM users WHERE username = %s AND password_hash = %s:
\* the set of result rows, empty where the method returns None
authenticate_user(us, username, password) ==
    {[user_id |-> u.user_id, role |-> u.role] :
        u \in {v \in us : /\ v.username = username
                          /\ v.password_hash = Sha256Hex(password)}}

AuthenticateUser ==
    \E username \in Usernames, password \in Passwords :
        /\ last' = [op |-> "authenticate_user", username |-> username,
                    password |-> password,
                    result |-> authenticate_user(users, username, password),
                    ok |-> authenticate_user(users, username, password) # {}]
        /\ UNCHANGED sessionVars
        /\ UNCHANGED <<userVars, ledgerVars, poultryVars, expenseVars>>

----------------------------------------------------------------------------
(* Ledger *)

MoneyRow(from, to, amount, type, remaining) ==
    [from_user_id |-> from, to_user_id |-> to, amount |-> amount,
     transaction_type |-> type, remaining_balance |-> remaining]

\* the sufficiency check of add_money_transaction; system_input rows are
\* inserted before the check is reached
add_money_transaction_ok(mt, from, amount, type) ==
    \/ type = "system_input"
    \/ ~ (from # SYSTEM /\ get_balance(mt, from) < amount)

add_money_transaction(mt, from, to, amount, type) ==
    IF type = "system_input"
    THEN Append(mt, MoneyRow(from, to, amount, type, amount))
    ELSE IF add_money_transaction_ok(mt, from, amount, type)
    THEN Append(mt, MoneyRow(from, to, amount, type,
                    IF from # SYSTEM THEN get_balance(mt, from) - amount ELSE 0))
    ELSE mt

AddMoneyTransaction ==
    \E from \in Parties, to \in Parties, amount \in 1..MaxAmount,
       type \in TransactionTypes :
        /\ Len(money_transactions) < MaxLedger
        /\ money_transactions' =
              add_money_transaction(money_transactions, from, to, amount, type)
        /\ last' = [op |-> "add_money_transaction", from |-> from, to |-> to,
                    amount |-> amount, type |-> type,
                    ok |-> add_money_transaction_ok(money_transactions, from,
                                                    amount, type)]
        /\ UNCHANGED sessionVars
        /\ UNCHANGED <<userVars, system_money, poultryVars, expenseVars>>

Abs(x) == IF x < 0 THEN 0 - x ELSE x

\* update_system_money recording the new total instead of the adjustment
update_system_money_total(us, mt, amount) ==
    IF AdminIds(us) = {} THEN mt
    ELSE LET admin_id == FirstAdmin(us)
             adjustment_amount == amount - get_system_money(us, mt)
         IN IF adjustment_amount # 0
            THEN Append(mt, MoneyRow(
                    IF adjustment_amount > 0 THEN SYSTEM ELSE admin_id,
                    IF adjustment_amount > 0 THEN admin_id ELSE SYSTEM,
                    amount, "system_input", amount))
            ELSE mt

update_system_money(us, mt, amount) ==
    IF AdminIds(us) = {} THEN mt
    ELSE LET admin_id == FirstAdmin(us)
             adjustment_amount == amount - get_system_money(us, mt)
         IN IF adjustment_amount # 0
            THEN Append(mt, MoneyRow(
                    IF adjustment_amount > 0 THEN SYSTEM ELSE admin_id,
                    IF adjustment_amount > 0 THEN admin_id ELSE SYSTEM,
                    Abs(adjustment_amount), "system_input", amount))
            ELSE mt

UpdateSystemMoney ==
    \E amount \in 0..MaxAmount :
        /\ Len(money_transactions) < MaxLedger
        /\ money_transactions' = update_system_money(users, money_transactions, amount)
        /\ last' = [op |-> "update_system_money", amount |-> amount,
                    ok |-> AdminIds(users) # {}]
        /\ UNCHANGED sessionVars
        /\ UNCHANGED <<userVars, system_money, poultryVars, expenseVars>>

----------------------------------------------------------------------------
(* Reconciliation *)

\* the row the subquery selects for user_id: of the rows naming it the most
\* recent one (ORDER BY date DESC, created_at DESC LIMIT 1); 0 when none
LastRowNaming(mt, user_id) ==
    LET rows == {i \in DOMAIN mt : mt[i].from_user_id = user_id
                                     \/ mt[i].to_user_id = user_id}
    IN IF rows = {} THEN 0 ELSE CHOOSE i \in rows : \A j \in rows : j <= i

RECURSIVE FixUserBalances(_, _)
\* the loop over the rows of SELECT user_id FROM users: the remaining_balance
\* of the user's most recent row is set to the user's calculated balance
FixUserBalances(mt, ids) ==
    IF ids = {} THEN mt
    ELSE LET user_id == SetMin(ids)
             calculated_balance == SumCase(mt, user_id)
             i == LastRowNaming(mt, user_id)
             fixed == IF i = 0 THEN mt
                      ELSE [mt EXCEPT ![i].remaining_balance = calculated_balance]
         IN FixUserBalances(fixed, ids \ {user_id})

\* a pass that writes the calculated balance into the amount column
verify_and_fix_balances_amount(us, mt) ==
    LET ids == {u.user_id : u \in us}
    IN [i \in DOMAIN mt |->
          IF \E id \in ids : LastRowNaming(mt, id) = i
          THEN [mt[i] EXCEPT !.amount = SumCase(mt, mt[i].to_user_id)]
          ELSE mt[i]]

\* the ledger after the statements of verify_and_fix_balances have run
verify_and_fix_balances(us, mt) ==
    FixUserBalances(mt, {u.user_id : u \in us})

\* verify_and_fix_balances opens with conn.execute("BEGIN IMMEDIATE").  The
\* connection is the one psycopg2.connect returns, and execute is a method of
\* its cursors; where the connection object offers no execute the call
\* raises, is rolled back and returns False (executed = FALSE), and where it
\* does the statements below the BEGIN run and are committed.
VerifyAndFixBalances ==
    \E executed \in BOOLEAN :
        /\ IF executed
           THEN /\ system_money' = SumCase(money_transactions, SYSTEM)
                /\ money_transactions' =
                       verify_and_fix_balances(users, money_transactions)
           ELSE UNCHANGED <<money_transactions, system_money>>
        /\ last' = [op |-> "verify_and_fix_balances", ok |-> executed]
        /\ UNCHANGED sessionVars
        /\ UNCHANGED <<userVars, poultryVars, expenseVars>>

----------------------------------------------------------------------------
(* Farmers *)

AddFarmer ==
    /\ next_farmer_id <= MaxFarmers
    /\ farmers' = farmers \cup {next_farmer_id}
    /\ next_farmer_id' = next_farmer_id + 1
    /\ last' = [op |-> "add_farmer", farmer_id |-> next_farmer_id, ok |-> TRUE]
    /\ UNCHANGED sessionVars
    /\ UNCHANGED <<userVars, ledgerVars, poultry_transactions, next_transaction_id,
                   creation_payment, payment_history, expenseVars>>

\* SELECT COUNT(*) FROM poultry_transactions WHERE farmer_id = %s
TransactionCount(pt, farmer_id) == Cardinality({t \in pt : t.farmer_id = farmer_id})

delete_farmer_ok(us, fs, pt, farmer_id, admin_id) ==
    /\ IsAdmin(us, admin_id)
    /\ ~ (TransactionCount(pt, farmer_id) > 0)
    /\ farmer_id \in fs

DeleteFarmer ==
    \E farmer_id \in 0..MaxFarmers, admin_id \in Parties :
        /\ IF delete_farmer_ok(users, farmers, poultry_transactions, farmer_id, admin_id)
           THEN farmers' = farmers \ {farmer_id}
           ELSE farmers' = farmers
        /\ last' = [op |-> "delete_farmer", target |-> farmer_id, caller |-> admin_id,
                    ok |-> delete_farmer_ok(users, farmers, poultry_transactions,
                                            farmer_id, admin_id)]
        /\ UNCHANGED sessionVars
        /\ UNCHANGED <<userVars, ledgerVars, next_farmer_id, poultry_transactions,
                       next_transaction_id, creation_payment, payment_history,
                       expenseVars>>

----------------------------------------------------------------------------
(* Poultry transactions *)

\* the status both forms compute before they call add_poultry_transaction
FormPaymentStatus(payment_made, payment_amount, total_amount) ==
    IF payment_made
    THEN (IF payment_amount >= total_amount THEN "Fully Paid" ELSE "Partially Paid")
    ELSE "Unpaid"

add_poultry_transaction(pt, id, farmer_id, type, quantity, price_per_unit, payment_amount, payment_status) ==
    pt \cup {[transaction_id |-> id, farmer_id |-> farmer_id,
              transaction_type |-> type, quantity |-> quantity,
              price_per_unit |-> price_per_unit,
              total_amount |-> quantity * price_per_unit,
              payment_amount |-> payment_amount,
              payment_status |-> payment_status]}

\* the submit branch shared by the purchase and the sale form
RecordForm(op, type, cap, farmer_id, quantity, price_per_unit, payment_made, payment_amount) ==
    LET total_amount == quantity * price_per_unit
        paid   == IF payment_made THEN payment_amount ELSE 0
        status == FormPaymentStatus(payment_made, paid, total_amount)
        valid  == ~ (quantity <= 0) /\ ~ (price_per_unit <= 0)
    IN /\ next_transaction_id <= cap
       /\ IF valid
          THEN /\ poultry_transactions' =
                     add_poultry_transaction(poultry_transactions, next_transaction_id,
                         farmer_id, type, quantity, price_per_unit, paid, status)
               /\ next_transaction_id' = next_transaction_id + 1
               /\ creation_payment' = Append(creation_payment, paid)
          ELSE UNCHANGED <<poultry_transactions, next_transaction_id, creation_payment>>
       /\ last' = [op |-> op, quantity |-> quantity,
                   price_per_unit |-> price_per_unit, ok |-> valid]
       /\ UNCHANGED sessionVars
       /\ UNCHANGED <<userVars, ledgerVars, farmers, next_farmer_id, payment_history,
                      expenseVars>>

\* The purchase form: the selectbox label carries "ID: {x.name}", the row's
\* index label in the DataFrame returned by get_farmers (0 .. n-1)
ShowBuyChicken ==
    /\ farmers # {}
    /\ \E idx \in 0..(Cardinality(farmers) - 1),
          quantity \in 0..MaxQuantity, price_per_unit \in 0..MaxPrice,
          payment_made \in BOOLEAN :
        \E payment_amount \in 0..(quantity * price_per_unit) :
            RecordForm("show_buy_chicken", "buy", MaxPurchases, idx, quantity,
                       price_per_unit, payment_made, payment_amount)

\* The sale form: the buyer is picked among the farmer_id groups of
\* get_per_farmer_inventory
ShowSellChicken ==
    /\ farmers # {}
    /\ poultry_transactions # {}
    /\ \E farmer_id \in {t.farmer_id : t \in poultry_transactions},
          quantity \in 0..MaxQuantity, price_per_unit \in 0..MaxPrice,
          payment_made \in BOOLEAN :
        \E payment_amount \in 0..(quantity * price_per_unit) :
            RecordForm("show_sell_chicken", "sell", MaxTransactions, farmer_id,
                       quantity, price_per_unit, payment_made, payment_amount)

\* add_poultry_transaction called as the layer offers it, payment_amount and
\* payment_status left at their defaults (0, "Unpaid"); the method checks
\* neither quantity nor price_per_unit
AddPoultryTransaction ==
    \E farmer_id \in farmers, type \in {"buy", "sell"},
       quantity \in 0..MaxQuantity, price_per_unit \in 0..MaxPrice :
        /\ next_transaction_id <= MaxTransactions
        /\ poultry_transactions' =
               add_poultry_transaction(poultry_transactions, next_transaction_id,
                   farmer_id, type, quantity, price_per_unit, 0, "Unpaid")
        /\ next_transaction_id' = next_transaction_id + 1
        /\ creation_payment' = Append(creation_payment, 0)
        /\ last' = [op |-> "add_poultry_transaction", quantity |-> quantity,
                    price_per_unit |-> price_per_unit, ok |-> TRUE]
        /\ UNCHANGED sessionVars
        /\ UNCHANGED <<userVars, ledgerVars, farmers, next_farmer_id, payment_history,
                       expenseVars>>

----------------------------------------------------------------------------
(* Inventory *)

RECURSIVE SumCaseQuantity(_, _)
\* SUM(CASE WHEN transaction_type = type THEN quantity ELSE 0 END) over rows
SumCaseQuantity(rows, type) ==
    IF rows = {} THEN 0
    ELSE LET t == CHOOSE r \in rows : TRUE
         IN (IF t.transaction_type = type THEN t.quantity ELSE 0)
            + SumCaseQuantity(rows \ {t}, type)

\* get_per_farmer_inventory whose remaining_stock column is total_purchased
get_per_farmer_inventory_purchased(pt) ==
    [farmer_id \in {t.farmer_id : t \in pt} |->
        LET rows == {t \in pt : t.farmer_id = farmer_id}
        IN [total_purchased |-> SumCaseQuantity(rows, "buy"),
            total_sold      |-> SumCaseQuantity(rows, "sell"),
            remaining_stock |-> SumCaseQuantity(rows, "buy")]]

\* one result row per farmer_id of poultry_transactions (GROUP BY farmer_id)
get_per_farmer_inventory(pt) ==
    [farmer_id \in {t.farmer_id : t \in pt} |->
        LET rows == {t \in pt : t.farmer_id = farmer_id}
        IN [total_purchased |-> SumCaseQuantity(rows, "buy"),
            total_sold      |-> SumCaseQuantity(rows, "sell"),
            remaining_stock |-> SumCaseQuantity(rows, "buy")
                                  - SumCaseQuantity(rows, "sell")]]

\* the single row of get_all_inventory; COALESCE(SUM(...), 0) is 0 on no rows
get_all_inventory(pt) ==
    LET total_bought == SumCaseQuantity(pt, "buy")
        total_sold   == SumCaseQuantity(pt, "sell")
    IN [total_buying_weight |-> total_bought,
        sold_weight         |-> total_sold,
        remaining_inventory |-> total_bought - total_sold]

----------------------------------------------------------------------------
(* Payments and edits *)

HasTransaction(pt, id) == \E t \in pt : t.transaction_id = id
TransactionOf(pt, id) == CHOOSE t \in pt : t.transaction_id = id

\* "Fully Paid" if new_payment_amount >= total_amount else "Partially Paid"
PaymentStatus(new_payment_amount, total_amount) ==
    IF new_payment_amount >= total_amount THEN "Fully Paid" ELSE "Partially Paid"

\* UPDATE poultry_transactions SET payment_amount, payment_status WHERE transaction_id
SetPayment(pt, id, payment_amount) ==
    {IF t.transaction_id = id
     THEN LET new_payment_amount == t.payment_amount + payment_amount
          IN [t EXCEPT !.payment_amount = new_payment_amount,
                       !.payment_status =
                           PaymentStatus(new_payment_amount, t.total_amount)]
     ELSE t : t \in pt}

\* add_payment_history without the "if not result" test
add_payment_history_ok_any_id(pt, transaction_id, payment_amount) == TRUE

\* if not result: raise ValueError("Transaction not found")
add_payment_history_ok(pt, transaction_id, payment_amount) ==
    HasTransaction(pt, transaction_id)

AddPaymentHistory ==
    \E transaction_id \in 1..MaxTransactions, payment_amount \in PaymentAmounts :
        /\ Len(payment_history) < MaxHistory
        /\ IF add_payment_history_ok(poultry_transactions, transaction_id, payment_amount)
           THEN /\ payment_history' = Append(payment_history,
                       [transaction_id |-> transaction_id,
                        payment_amount |-> payment_amount])
                /\ poultry_transactions' =
                       SetPayment(poultry_transactions, transaction_id, payment_amount)
           ELSE UNCHANGED <<payment_history, poultry_transactions>>
        /\ last' = [op |-> "add_payment_history", target |-> transaction_id,
                    amount |-> payment_amount,
                    ok |-> add_payment_history_ok(poultry_transactions,
                                                  transaction_id, payment_amount)]
        /\ UNCHANGED sessionVars
        /\ UNCHANGED <<userVars, ledgerVars, farmers, next_farmer_id,
                       next_transaction_id, creation_payment, expenseVars>>

UpdatePayment ==
    \E transaction_id \in 1..MaxTransactions, payment_amount \in PaymentAmounts :
        /\ IF HasTransaction(poultry_transactions, transaction_id)
           THEN /\ Abs(TransactionOf(poultry_transactions, transaction_id).payment_amount
                       + payment_amount) <= MaxPaid
                /\ poultry_transactions' =
                       SetPayment(poultry_transactions, transaction_id, payment_amount)
           ELSE UNCHANGED poultry_transactions
        /\ last' = [op |-> "update_payment", target |-> transaction_id,
                    amount |-> payment_amount,
                    ok |-> HasTransaction(poultry_transactions, transaction_id)]
        /\ UNCHANGED sessionVars
        /\ UNCHANGED <<userVars, ledgerVars, farmers, next_farmer_id,
                       next_transaction_id, creation_payment, payment_history,
                       expenseVars>>

\* edit_transaction: the columns it writes for the given quantity and
\* price_per_unit (None when the argument is left out)
EditRow(t, quantity, price_per_unit) ==
    LET t1 == IF quantity # None THEN [t EXCEPT !.quantity = quantity] ELSE t
    IN IF price_per_unit # None
       THEN [t1 EXCEPT !.price_per_unit = price_per_unit,
                       !.total_amount = quantity * price_per_unit]
       ELSE t1

\* price_per_unit without quantity evaluates cursor.execute(...).fetchone():
\* execute returns None, the AttributeError leaves the method before the UPDATE
edit_transaction_ok(us, pt, transaction_id, admin_id, quantity, price_per_unit) ==
    /\ IsAdmin(us, admin_id)
    /\ ~ (price_per_unit # None /\ quantity = None)
    /\ (quantity # None \/ price_per_unit # None)
    /\ HasTransaction(pt, transaction_id)

EditTransaction ==
    \E transaction_id \in 1..MaxTransactions, admin_id \in Parties,
       quantity \in {None} \cup 1..MaxQuantity,
       price_per_unit \in {None} \cup 1..MaxPrice :
        /\ IF edit_transaction_ok(users, poultry_transactions, transaction_id,
                                  admin_id, quantity, price_per_unit)
           THEN poultry_transactions' =
                  LET t == TransactionOf(poultry_transactions, transaction_id)
                  IN (poultry_transactions \ {t}) \cup {EditRow(t, quantity, price_per_unit)}
           ELSE UNCHANGED poultry_transactions
        /\ last' = [op |-> "edit_transaction", target |-> transaction_id,
                    caller |-> admin_id, quantity |-> quantity,
                    price_per_unit |-> price_per_unit,
                    ok |-> edit_transaction_ok(users, poultry_transactions,
                               transaction_id, admin_id, quantity, price_per_unit)]
        /\ UNCHANGED sessionVars
        /\ UNCHANGED <<userVars, ledgerVars, farmers, next_farmer_id,
                       next_transaction_id, creation_payment, payment_history,
                       expenseVars>>

\* delete_transaction without the role check of the caller
delete_transaction_ok_any_caller(us, pt, transaction_id, admin_id) ==
    HasTransaction(pt, transaction_id)

delete_transaction_ok(us, pt, transaction_id, admin_id) ==
    /\ IsAdmin(us, admin_id)
    /\ HasTransaction(pt, transaction_id)

DeleteTransaction ==
    \E transaction_id \in 1..MaxTransactions, admin_id \in Parties :
        /\ IF delete_transaction_ok(users, poultry_transactions, transaction_id, admin_id)
           THEN poultry_transactions' =
                  {t \in poultry_transactions : t.transaction_id # transaction_id}
           ELSE UNCHANGED poultry_transactions
        /\ last' = [op |-> "delete_transaction", target |-> transaction_id,
                    caller |-> admin_id,
                    ok |-> delete_transaction_ok(users, poultry_transactions,
                                                 transaction_id, admin_id)]
        /\ UNCHANGED sessionVars
        /\ UNCHANGED <<userVars, ledgerVars, farmers, next_farmer_id,
                       next_transaction_id, creation_payment, payment_history,
                       expenseVars>>

----------------------------------------------------------------------------
(* Expenses *)

add_expense(ex, id, user_id, amount) ==
    ex \cup {[expense_id |-> id, user_id |-> user_id, amount |-> amount]}

AddExpense ==
    \E user_id \in UserIds, amount \in 1..MaxAmount :
        /\ next_expense_id <= MaxExpenses
        /\ expenses' = add_expense(expenses, next_expense_id, user_id, amount)
        /\ next_expense_id' = next_expense_id + 1
        /\ last' = [op |-> "add_expense", user_id |-> user_id, amount |-> amount,
                    ok |-> TRUE]
        /\ UNCHANGED sessionVars
        /\ UNCHANGED <<userVars, ledgerVars, poultryVars>>

\* DELETE FROM expenses WHERE expense_id = %s AND user_id = %s
delete_expense(ex, expense_id, user_id) ==
    {e \in ex : ~ (e.expense_id = expense_id /\ e.user_id = user_id)}

DeleteExpense ==
    \E expense_id \in 1..MaxExpenses, user_id \in UserIds :
        /\ expenses' = delete_expense(expenses, expense_id, user_id)
        /\ last' = [op |-> "delete_expense", target |-> expense_id,
                    user_id |-> user_id,
                    ok |-> delete_expense(expenses, expense_id, user_id) # expenses]
        /\ UNCHANGED sessionVars
        /\ UNCHANGED <<userVars, ledgerVars, poultryVars, next_expense_id>>

\* The checks of the expense form before it opens its own connection
expense_form_valid(mt, user_id, amount) ==
    /\ ~ (amount <= 0)
    /\ ~ (get_user_balance(mt, user_id) < amount)

\* The expense form.  A submission that passes the checks opens
\* sqlite3.connect(db.db_file); PoultryDatabase sets no db_file, so the
\* AttributeError leaves the form before either INSERT is executed (and the
\* second INSERT names neither transaction_type nor remaining_balance, both
\* NOT NULL).  No branch of the form commits a row.
ExpenseForm ==
    \E user_id \in UserIds, amount \in 0..MaxAmount :
        /\ last' = [op |-> "expense_form", user_id |-> user_id, amount |-> amount,
                    valid |-> expense_form_valid(money_transactions, user_id, amount),
                    ok |-> FALSE]
        /\ UNCHANGED sessionVars
        /\ UNCHANGED <<userVars, ledgerVars, poultryVars, expenseVars>>

----------------------------------------------------------------------------
(* Calls in flight.  Each call of the layer opens a connection of its own;   *)
(* the steps below are the statements of one call, so that the statements   *)
(* of two calls can interleave.  A row written by an UPDATE stays locked    *)
(* until the writing connection commits or rolls back.                      *)

\* the SELECT that opens add_payment_history and update_payment; with no row,
\* add_payment_history raises, rolls back and returns False, update_payment
\* closes the connection and raises ValueError("Transaction not found")
PaymentSelect(s) ==
    \E op \in {"add_payment_history", "update_payment"},
       transaction_id \in 1..MaxTransactions, payment_amount \in PaymentAmounts :
        LET found == HasTransaction(poultry_transactions, transaction_id)
            t == TransactionOf(poultry_transactions, transaction_id)
        IN /\ sessions[s].pc = "idle"
           /\ sessions' = [sessions EXCEPT ![s] =
                  [pc |-> IF found THEN "selected" ELSE "failed",
                   op |-> op, target |-> transaction_id, to |-> 0, type |-> "none",
                   amount |-> payment_amount,
                   seen |-> IF found THEN t.payment_amount ELSE 0,
                   total |-> IF found THEN t.total_amount ELSE 0]]
           /\ last' = [op |-> op, target |-> transaction_id,
                       amount |-> payment_amount, step |-> "select", ok |-> found]
           /\ UNCHANGED <<userVars, ledgerVars, poultryVars, expenseVars>>

\* INSERT INTO payment_history, not yet committed
PaymentInsert(s) ==
    /\ sessions[s].pc = "selected"
    /\ sessions[s].op = "add_payment_history"
    /\ sessions' = [sessions EXCEPT ![s].pc = "inserted"]
    /\ last' = [op |-> sessions[s].op, target |-> sessions[s].target,
                amount |-> sessions[s].amount, step |-> "insert", ok |-> TRUE]
    /\ UNCHANGED <<userVars, ledgerVars, poultryVars, expenseVars>>

\* UPDATE poultry_transactions SET payment_amount = new_payment_amount ...,
\* not yet committed; it waits while another connection holds the row
PaymentUpdate(s) ==
    /\ sessions[s].pc = (IF sessions[s].op = "add_payment_history"
                         THEN "inserted" ELSE "selected")
    /\ sessions[s].op \in {"add_payment_history", "update_payment"}
    /\ ~ \E o \in Sessions \ {s} : /\ sessions[o].pc = "updated"
                                    /\ sessions[o].target = sessions[s].target
    /\ sessions' = [sessions EXCEPT ![s].pc = "updated"]
    /\ last' = [op |-> sessions[s].op, target |-> sessions[s].target,
                amount |-> sessions[s].amount, step |-> "update", ok |-> TRUE]
    /\ UNCHANGED <<userVars, ledgerVars, poultryVars, expenseVars>>

\* the row of payment_history the call inserts
HistoryRow(r) == [transaction_id |-> r.target, payment_amount |-> r.amount]

\* the UPDATE of the call, new_payment_amount = current_payment + payment_amount
\* with current_payment as the SELECT of the call returned it
WritePayment(pt, r) ==
    LET new_payment_amount == r.seen + r.amount
    IN {IF t.transaction_id = r.target
        THEN [t EXCEPT !.payment_amount = new_payment_amount,
                       !.payment_status = PaymentStatus(new_payment_amount, r.total)]
        ELSE t : t \in pt}

\* conn.commit(): the writes of the call become visible together
PaymentCommit(s) ==
    /\ sessions[s].pc = "updated"
    /\ payment_history' = (IF sessions[s].op = "add_payment_history"
                           THEN Append(payment_history, HistoryRow(sessions[s]))
                           ELSE payment_history)
    /\ poultry_transactions' = WritePayment(poultry_transactions, sessions[s])
    /\ sessions' = [sessions EXCEPT ![s].pc = "committed"]
    /\ last' = [op |-> sessions[s].op, target |-> sessions[s].target,
                amount |-> sessions[s].amount, step |-> "commit", ok |-> TRUE]
    /\ UNCHANGED <<userVars, ledgerVars, farmers, next_farmer_id,
                   next_transaction_id, creation_payment, expenseVars>>

\* a failed call that leaves the payment_history row it had inserted
rollback_keeping_insert(ph, r) ==
    IF r.op = "add_payment_history" /\ r.pc \in {"inserted", "updated"}
    THEN Append(ph, HistoryRow(r))
    ELSE ph

\* conn.rollback() (or the connection closed without commit): the pending
\* writes of the call are dropped
rollback(ph, r) == ph

\* a statement of the call raises after the SELECT (store failure)
SessionAbort(s) ==
    /\ sessions[s].pc \in {"selected", "inserted", "updated", "checked"}
    /\ payment_history' = rollback(payment_history, sessions[s])
    /\ sessions' = [sessions EXCEPT ![s].pc = "failed"]
    /\ last' = [op |-> sessions[s].op, target |-> sessions[s].target,
                amount |-> sessions[s].amount, step |-> "rollback", ok |-> FALSE]
    /\ UNCHANGED <<userVars, ledgerVars, farmers, next_farmer_id,
                   poultry_transactions, next_transaction_id, creation_payment,
                   expenseVars>>

\* the transaction_type of the calls in flight: the default of the parameter,
\* which takes the path through the balance check
CheckedTypes == {"normal"}

\* rows the ledger can take once the calls in flight have inserted theirs
MaxLedgerRows == MaxLedger + MaxSessions

\* add_money_transaction up to its balance check: get_balance reads the ledger
\* on a connection of its own; with too small a balance the call returns None
TransferCheck(s) ==
    \E from \in Parties, to \in Parties, amount \in 1..MaxAmount,
       type \in CheckedTypes :
        LET from_balance == get_balance(money_transactions, from)
            passed == ~ (from # SYSTEM /\ from_balance < amount)
        IN /\ sessions[s].pc = "idle"
           /\ sessions' = [sessions EXCEPT ![s] =
                  [pc |-> IF passed THEN "checked" ELSE "failed",
                   op |-> "add_money_transaction", target |-> from, to |-> to,
                   type |-> type, amount |-> amount, seen |-> from_balance,
                   total |-> 0]]
           /\ last' = [op |-> "add_money_transaction", target |-> from,
                       amount |-> amount, step |-> "check", ok |-> passed]
           /\ UNCHANGED <<userVars, ledgerVars, poultryVars, expenseVars>>

\* the INSERT and commit that follow a passed check; remaining_balance is
\* computed from the balance the check read
TransferInsert(s) ==
    /\ sessions[s].pc = "checked"
    /\ sessions[s].op = "add_money_transaction"
    /\ Len(money_transactions) < MaxLedgerRows
    /\ money_transactions' = Append(money_transactions,
           MoneyRow(sessions[s].target, sessions[s].to, sessions[s].amount,
                    sessions[s].type,
                    IF sessions[s].target # SYSTEM
                    THEN sessions[s].seen - sessions[s].amount ELSE 0))
    /\ sessions' = [sessions EXCEPT ![s].pc = "committed"]
    /\ last' = [op |-> "add_money_transaction", target |-> sessions[s].target,
                amount |-> sessions[s].amount, step |-> "insert", ok |-> TRUE]
    /\ UNCHANGED <<userVars, system_money, poultryVars, expenseVars>>

----------------------------------------------------------------------------
(* Distribution of system money to a user: the "distribute_money" form of
   handle_money_management.  The page reads system_balance with
   get_system_money, the form validates the amount against it, then
   add_money_transaction and update_system_money run one after the other,
   each on a connection of its own and each with a commit of its own. *)

\* ledger rows while distributions are in flight
MaxDistributionRows == MaxLedger + 2 * MaxSessions

\* the page is rendered and the form submitted: system_balance is read, a user
\* whose role is not admin is selected, and the amount is validated
DistributeSubmit(s) ==
    \E u \in users, amount \in 0..MaxAmount :
        LET system_balance == get_system_money(users, money_transactions)
            passed == ~ (amount <= 0) /\ ~ (amount > system_balance)
        IN /\ sessions[s].pc = "idle"
           /\ u.role # "admin"
           /\ sessions' = [sessions EXCEPT ![s] =
                  IF passed
                  THEN [pc |-> "checked", op |-> "distribute", target |-> 0,
                        to |-> u.user_id, type |-> "distribution",
                        amount |-> amount, seen |-> system_balance,
                        total |-> system_balance - amount]
                  ELSE sessions[s]]
           /\ last' = [op |-> "distribute", step |-> "submit", to |-> u.user_id,
                       amount |-> amount, ok |-> passed]
           /\ UNCHANGED <<userVars, ledgerVars, poultryVars, expenseVars>>

\* add_money_transaction(date, 0, selected_user_id, amount, ...,
\* transaction_type='distribution'); the returned transaction_id is kept
DistributeInsert(s) ==
    /\ sessions[s].pc = "checked"
    /\ sessions[s].op = "distribute"
    /\ Len(money_transactions) < MaxDistributionRows
    /\ money_transactions' =
          add_money_transaction(money_transactions, SYSTEM, sessions[s].to,
                                sessions[s].amount, "distribution")
    /\ sessions' = [sessions EXCEPT ![s].pc = "credited",
                                    ![s].target = Len(money_transactions')]
    /\ last' = [op |-> "distribute", step |-> "insert", to |-> sessions[s].to,
                amount |-> sessions[s].amount, ok |-> TRUE]
    /\ UNCHANGED <<userVars, system_money, poultryVars, expenseVars>>

\* update_system_money(system_balance - amount) with the balance the page
\* read.  A statement that raises is caught: rollback, return False, and the
\* page reports "Failed to update system balance!"
DistributeUpdate(s) ==
    \E raised \in BOOLEAN :
        LET success == ~ raised /\ AdminIds(users) # {}
        IN /\ sessions[s].pc = "credited"
           /\ sessions[s].op = "distribute"
           /\ Len(money_transactions) < MaxDistributionRows
           /\ money_transactions' =
                 IF raised THEN money_transactions
                 ELSE update_system_money(users, money_transactions,
                                          sessions[s].total)
           /\ sessions' = [sessions EXCEPT
                              ![s].pc = IF success THEN "committed" ELSE "failed"]
           /\ last' = [op |-> "distribute", step |-> "update",
                       to |-> sessions[s].to, amount |-> sessions[s].amount,
                       ok |-> success]
           /\ UNCHANGED <<userVars, system_money, poultryVars, expenseVars>>

----------------------------------------------------------------------------
NextLedger == AddUser \/ DeleteUser \/ AddMoneyTransaction \/ UpdateSystemMoney

SpecLedger == Init /\ [][NextLedger]_vars

NextUsers == AddUser \/ DeleteUser

SpecUsers == Init /\ [][NextUsers]_vars

NextAdmin ==
    \/ AddUser \/ DeleteUser \/ AddFarmer \/ DeleteFarmer
    \/ ShowBuyChicken \/ DeleteTransaction

SpecAdmin == Init /\ [][NextAdmin]_vars

NextPayments ==
    \/ AddFarmer \/ ShowBuyChicken \/ AddPaymentHistory \/ UpdatePayment

SpecPayments == Init /\ [][NextPayments]_vars

NextEdit ==
    \/ AddUser \/ AddFarmer \/ ShowBuyChicken
    \/ AddPaymentHistory \/ EditTransaction

NextSales == AddFarmer \/ ShowBuyChicken \/ ShowSellChicken

SpecSales == Init /\ [][NextSales]_vars

NextExpense == AddMoneyTransaction \/ AddExpense \/ ExpenseForm \/ DeleteExpense

SpecExpense == Init /\ [][NextExpense]_vars

NextRecorder ==
    \/ AddFarmer \/ AddPoultryTransaction \/ ShowBuyChicken \/ ShowSellChicken

SpecRecorder == Init /\ [][NextRecorder]_vars

NextPaymentSessions ==
    \/ AddFarmer \/ ShowBuyChicken
    \/ \E s \in Sessions : \/ PaymentSelect(s) \/ PaymentInsert(s) \/ PaymentUpdate(s)
                           \/ PaymentCommit(s) \/ SessionAbort(s)

SpecPaymentSessions == Init /\ [][NextPaymentSessions]_vars

NextTransfers ==
    \/ AddUser \/ UpdateSystemMoney
    \/ \E s \in Sessions : TransferCheck(s) \/ TransferInsert(s) \/ SessionAbort(s)

SpecTransfers == Init /\ [][NextTransfers]_vars

NextAuth == AddUser \/ DeleteUser \/ AuthenticateUser

SpecAuth == Init /\ [][NextAuth]_vars

NextReconcile ==
    \/ AddUser \/ AddMoneyTransaction \/ UpdateSystemMoney \/ VerifyAndFixBalances

SpecReconcile == Init /\ [][NextReconcile]_vars

NextAppend ==
    \/ AddUser \/ DeleteUser \/ AddMoneyTransaction \/ UpdateSystemMoney
    \/ VerifyAndFixBalances

SpecAppend == Init /\ [][NextAppend]_vars

NextHistory ==
    \/ AddUser \/ AddFarmer \/ ShowBuyChicken \/ AddPaymentHistory
    \/ DeleteTransaction

SpecHistory == Init /\ [][NextHistory]_vars

NextDistribute ==
    \/ AddUser \/ UpdateSystemMoney
    \/ \E s \in Sessions :
          DistributeSubmit(s) \/ DistributeInsert(s) \/ DistributeUpdate(s)

SpecDistribute == Init /\ [][NextDistribute]_vars

NextInventory ==
    \/ AddUser \/ AddFarmer \/ AddPoultryTransaction
    \/ ShowBuyChicken \/ ShowSellChicken \/ DeleteTransaction

SpecInventory == Init /\ [][NextInventory]_vars

Next ==
    \/ AddUser \/ DeleteUser \/ AuthenticateUser
    \/ AddMoneyTransaction \/ UpdateSystemMoney \/ VerifyAndFixBalances
    \/ AddFarmer \/ DeleteFarmer
    \/ ShowBuyChicken \/ ShowSellChicken \/ AddPoultryTransaction
    \/ AddPaymentHistory \/ UpdatePayment \/ EditTransaction \/ DeleteTransaction
    \/ AddExpense \/ ExpenseForm \/ DeleteExpense

Spec == Init /\ [][Next]_vars

SpecEdit == Init /\ [][NextEdit]_vars

----------------------------------------------------------------------------
(* Claims *)

RECURSIVE Received(_, _)
Received(mt, p) ==
    IF mt = << >> THEN 0
    ELSE (IF Head(mt).to_user_id = p THEN Head(mt).amount ELSE 0)
         + Received(Tail(mt), p)

RECURSIVE Sent(_, _)
Sent(mt, p) ==
    IF mt = << >> THEN 0
    ELSE (IF Head(mt).from_user_id = p THEN Head(mt).amount ELSE 0)
         + Sent(Tail(mt), p)

\* +amount for every row where p is the recipient, -amount where p is the sender
SignedSum(mt, p) == Received(mt, p) - Sent(mt, p)

\* C1: in every reachable ledger, get_user_balance(p) and get_balance(p) both
\* equal the signed sum of the rows naming p, for every real user and for the
\* system account 0 (a row with from = to = p contributes 0).
C1_BalanceIsSignedSum ==
    \A p \in Parties :
        /\ get_user_balance(money_transactions, p) = SignedSum(money_transactions, p)
        /\ get_balance(money_transactions, p) = SignedSum(money_transactions, p)

\* C2: every stored poultry transaction has payment_status Unpaid iff
\* payment_amount = 0, Fully Paid iff payment_amount >= total_amount, and
\* Partially Paid otherwise.
C2_StatusDerivedFromAmounts ==
    \A t \in poultry_transactions :
        /\ (t.payment_status = "Unpaid") <=> (t.payment_amount = 0)
        /\ (t.payment_status = "Fully Paid") <=> (t.payment_amount >= t.total_amount)
        /\ (t.payment_status = "Partially Paid") <=>
               (t.payment_amount # 0 /\ t.payment_amount < t.total_amount)

\* C3: a call of add_money_transaction, of any transaction_type, whose sender
\* is a real user with balance below the amount returns no id, inserts no row
\* and leaves every balance as it was.
C3_InsufficientFundsRejected ==
    [][(/\ last'.op = "add_money_transaction"
        /\ last'.from # SYSTEM
        /\ \E u \in users : u.user_id = last'.from
        /\ get_balance(money_transactions, last'.from) < last'.amount)
       => (/\ ~ last'.ok
           /\ money_transactions' = money_transactions
           /\ \A p \in Parties : get_balance(money_transactions', p)
                                   = get_balance(money_transactions, p))]_vars

\* C4: a call of add_payment_history that would push payment_amount past
\* total_amount is rejected: it returns failure, adds no payment_history row
\* and changes no transaction.
C4_OverPaymentRejected ==
    [][(/\ last'.op = "add_payment_history"
        /\ HasTransaction(poultry_transactions, last'.target)
        /\ LET t == TransactionOf(poultry_transactions, last'.target)
           IN t.payment_amount + last'.amount > t.total_amount)
       => (/\ ~ last'.ok
           /\ payment_history' = payment_history
           /\ poultry_transactions' = poultry_transactions)]_vars

\* C5: for an admin caller, delete_farmer fails and keeps the farmer when a
\* transaction references it, succeeds and removes an existing unreferenced
\* farmer, and every state it produces has every transaction's farmer_id
\* naming an existing farmer.
C5_DeleteFarmerKeepsReferences ==
    [][(last'.op = "delete_farmer" /\ IsAdmin(users, last'.caller))
       => (/\ TransactionCount(poultry_transactions, last'.target) > 0
                => (~ last'.ok /\ farmers' = farmers)
           /\ (TransactionCount(poultry_transactions, last'.target) = 0
                 /\ last'.target \in farmers)
                => (last'.ok /\ last'.target \notin farmers')
           /\ last'.ok => \A t \in poultry_transactions' : t.farmer_id \in farmers')]_vars

\* C6: delete_user never removes a user whose role is admin: whoever calls,
\* the call fails and the users table is unchanged.
C6_AdminNeverDeleted ==
    [][(last'.op = "delete_user" /\ IsAdmin(users, last'.target))
       => (~ last'.ok /\ users' = users)]_vars

\* C6 witness: an admin asked to delete another admin, and was refused
C6_Witness ==
    /\ last.op = "delete_user"
    /\ IsAdmin(users, last.target)
    /\ IsAdmin(users, last.caller)
    /\ last.caller # last.target
    /\ ~ last.ok

\* C7: delete_farmer, delete_user and delete_transaction called by an id whose
\* stored role is not admin (a non-admin, a deleted user, an unknown id) fail
\* and leave farmers, users and poultry_transactions unchanged.
C7_DeletesNeedAdmin ==
    [][(/\ last'.op \in {"delete_farmer", "delete_user", "delete_transaction"}
        /\ ~ IsAdmin(users, last'.caller))
       => (/\ ~ last'.ok
           /\ farmers' = farmers
           /\ users' = users
           /\ poultry_transactions' = poultry_transactions)]_vars

\* C7 witness: a user of role "user" asked to delete an existing transaction
C7_Witness ==
    /\ last.op = "delete_transaction"
    /\ RoleOf(users, last.caller) = "user"
    /\ HasTransaction(poultry_transactions, last.target)
    /\ ~ last.ok

RECURSIVE SumHistory(_, _)
SumHistory(ph, transaction_id) ==
    IF ph = << >> THEN 0
    ELSE (IF Head(ph).transaction_id = transaction_id
          THEN Head(ph).payment_amount ELSE 0)
         + SumHistory(Tail(ph), transaction_id)

\* C8: every poultry transaction's payment_amount equals the payment given at
\* creation plus the sum of its payment_history amounts.
C8_PaymentEqualsHistory ==
    \A t \in poultry_transactions :
        t.payment_amount = creation_payment[t.transaction_id]
                             + SumHistory(payment_history, t.transaction_id)

MatchingRows(mt, e) ==
    {i \in DOMAIN mt : /\ mt[i].from_user_id = e.user_id
                       /\ mt[i].to_user_id = SYSTEM
                       /\ mt[i].amount = e.amount}

\* C9: every expense row has exactly one matching ledger row (from its user
\* to the system account, same amount) and every expense ledger row has a
\* matching expense.
C9_ExpenseLockstep ==
    /\ \A e \in expenses : Cardinality(MatchingRows(money_transactions, e)) = 1
    /\ \A i \in DOMAIN money_transactions :
          (/\ money_transactions[i].transaction_type = "expense"
           /\ money_transactions[i].from_user_id # SYSTEM
           /\ money_transactions[i].to_user_id = SYSTEM)
            => \E e \in expenses : i \in MatchingRows(money_transactions, e)

\* C10: with an admin in the users table, update_system_money(new_total)
\* succeeds, inserts no row when delta = new_total - get_system_money() is 0
\* and otherwise exactly one row of amount |delta| (system -> admin when
\* delta > 0, admin -> system when delta < 0), after which get_system_money()
\* is new_total.
C10_SystemAdjustment ==
    [][(last'.op = "update_system_money" /\ AdminIds(users) # {})
       => LET delta == last'.amount - get_system_money(users, money_transactions)
              n == Len(money_transactions)
              admin == FirstAdmin(users)
          IN /\ last'.ok
             /\ delta = 0 => money_transactions' = money_transactions
             /\ delta # 0 =>
                  /\ Len(money_transactions') = n + 1
                  /\ SubSeq(money_transactions', 1, n) = money_transactions
                  /\ money_transactions'[n + 1].amount = Abs(delta)
                  /\ money_transactions'[n + 1].from_user_id
                        = (IF delta > 0 THEN SYSTEM ELSE admin)
                  /\ money_transactions'[n + 1].to_user_id
                        = (IF delta > 0 THEN admin ELSE SYSTEM)
             /\ get_system_money(users', money_transactions') = last'.amount]_vars

\* C10 witness: an adjustment downwards was recorded, admin -> system
C10_Witness ==
    /\ last.op = "update_system_money"
    /\ last.ok
    /\ money_transactions # << >>
    /\ LET r == money_transactions[Len(money_transactions)]
       IN /\ r.to_user_id = SYSTEM
          /\ r.from_user_id = FirstAdmin(users)
          /\ r.transaction_type = "system_input"
          /\ r.remaining_balance = last.amount
          /\ get_system_money(users, money_transactions) = last.amount

RECURSIVE SumQuantity(_)
SumQuantity(rows) ==
    IF rows = {} THEN 0
    ELSE LET t == CHOOSE r \in rows : TRUE
         IN t.quantity + SumQuantity(rows \ {t})

RECURSIVE SumRemaining(_, _)
SumRemaining(inv, ids) ==
    IF ids = {} THEN 0
    ELSE LET f == CHOOSE i \in ids : TRUE
         IN inv[f].remaining_stock + SumRemaining(inv, ids \ {f})

\* C11: whatever rows insertions and deletions have left, get_per_farmer_inventory
\* has one row for each farmer_id with at least one transaction, its
\* remaining_stock is the sum of the quantities of that farmer's buy rows minus
\* the sum of the quantities of its sell rows, and the remaining inventory of
\* get_all_inventory is the sum of the per-farmer remaining_stock values.
C11_InventoryAggregates ==
    LET inv == get_per_farmer_inventory(poultry_transactions)
    IN /\ DOMAIN inv = {t.farmer_id : t \in poultry_transactions}
       /\ \A f \in DOMAIN inv :
             inv[f].remaining_stock =
                 SumQuantity({t \in poultry_transactions :
                                t.farmer_id = f /\ t.transaction_type = "buy"})
               - SumQuantity({t \in poultry_transactions :
                                t.farmer_id = f /\ t.transaction_type = "sell"})
       /\ get_all_inventory(poultry_transactions).remaining_inventory
             = SumRemaining(inv, DOMAIN inv)

\* C11 witness: the purchase of a farmer was deleted and its sale is left, so
\* that the farmer's remaining_stock is the negated quantity sold
C11_Witness ==
    LET inv == get_per_farmer_inventory(poultry_transactions)
    IN /\ last.op = "delete_transaction" /\ last.ok
       /\ \E f \in DOMAIN inv : /\ inv[f].total_purchased = 0
                                 /\ inv[f].total_sold > 0
                                 /\ inv[f].remaining_stock = 0 - inv[f].total_sold

StatusRank(payment_status) ==
    CASE payment_status = "Unpaid" -> 0
      [] payment_status = "Partially Paid" -> 1
      [] payment_status = "Fully Paid" -> 2

\* C12: across every step, a poultry transaction's payment_amount never
\* decreases and its payment_status never moves backwards in the order
\* Unpaid < Partially Paid < Fully Paid.
C12_PaymentsMoveTowardPaid ==
    [][\A t \in poultry_transactions : \A u \in poultry_transactions' :
          u.transaction_id = t.transaction_id
            => (/\ u.payment_amount >= t.payment_amount
                /\ StatusRank(u.payment_status) >= StatusRank(t.payment_status))]_vars

\* C13: every stored poultry transaction has total_amount = quantity * price_per_unit.
C13_TotalIsQuantityTimesPrice ==
    \A t \in poultry_transactions : t.total_amount = t.quantity * t.price_per_unit

\* C14: recording a purchase or a sale with quantity <= 0 or price_per_unit <= 0
\* fails and persists no poultry transaction row, and no stored poultry
\* transaction has quantity <= 0 or price_per_unit <= 0.
C14_NonPositiveRejected ==
    [][/\ (/\ last'.op \in {"add_poultry_transaction", "show_buy_chicken",
                            "show_sell_chicken"}
           /\ (last'.quantity <= 0 \/ last'.price_per_unit <= 0))
          => (~ last'.ok /\ poultry_transactions' = poultry_transactions)
       /\ \A t \in poultry_transactions' : t.quantity > 0 /\ t.price_per_unit > 0]_vars

\* C15: add_payment_history is all-or-nothing.  The step that ends a call with
\* success adds exactly one payment_history row and updates the parent's
\* payment_amount and payment_status; every other step of a call, a failure at
\* any statement included, leaves payment_history and poultry_transactions as
\* they were, and a failed call reports failure.
C15_PaymentAllOrNothing ==
    [][\A s \in Sessions :
         (sessions'[s] # sessions[s] /\ sessions'[s].op = "add_payment_history")
           => IF sessions'[s].pc = "committed"
              THEN /\ last'.ok
                   /\ payment_history' =
                         Append(payment_history, HistoryRow(sessions[s]))
                   /\ LET u == TransactionOf(poultry_transactions', sessions[s].target)
                      IN /\ u.payment_amount = sessions[s].seen + sessions[s].amount
                         /\ u.payment_status =
                               PaymentStatus(u.payment_amount, u.total_amount)
              ELSE /\ payment_history' = payment_history
                   /\ poultry_transactions' = poultry_transactions
                   /\ sessions'[s].pc = "failed" => ~ last'.ok]_vars

\* C15 witness: a call failed after its INSERT and its UPDATE, and
\* payment_history holds no row
C15_Witness ==
    \E s \in Sessions :
        /\ sessions[s].op = "add_payment_history"
        /\ sessions[s].pc = "failed"
        /\ last.op = "add_payment_history" /\ last.step = "rollback"
        /\ HasTransaction(poultry_transactions, sessions[s].target)
        /\ payment_history = << >>

\* C16: when two calls of add_payment_history or update_payment with amounts a
\* and b on the same transaction, whose payment_amount was P, have both
\* succeeded, its payment_amount is P + a + b, however their statements
\* interleaved.
C16_NoLostPayment ==
    \A s1 \in Sessions : \A s2 \in Sessions \ {s1} :
        (/\ sessions[s1].pc = "committed" /\ sessions[s2].pc = "committed"
         /\ sessions[s1].op \in {"add_payment_history", "update_payment"}
         /\ sessions[s2].op \in {"add_payment_history", "update_payment"}
         /\ sessions[s1].target = sessions[s2].target)
          => TransactionOf(poultry_transactions, sessions[s1].target).payment_amount
               = creation_payment[sessions[s1].target]
                   + sessions[s1].amount + sessions[s2].amount

\* C17: after any sequential series of add_money_transaction calls with positive
\* amounts and update_system_money calls with non-negative targets, started
\* from the empty ledger, the balance of every user of the users table is >= 0.
C17_NoOverdraft ==
    \A u \in users : get_balance(money_transactions, u.user_id) >= 0

\* C18: the balance check and the insert of add_money_transaction are one
\* atomic unit.  When a transfer of b from a real user has been recorded after
\* a check that read balance B, and a second transfer of a from the same user
\* passed its check on the same balance B, with a + b > B, the second call
\* does not insert its row, and the user's balance stays >= 0.
C18_CheckAndInsertAtomic ==
    [][\A s1 \in Sessions : \A s2 \in Sessions \ {s1} :
         (/\ sessions[s1].op = "add_money_transaction"
          /\ sessions[s2].op = "add_money_transaction"
          /\ sessions[s1].pc = "checked" /\ sessions[s2].pc = "committed"
          /\ sessions[s1].target # SYSTEM
          /\ sessions[s1].target = sessions[s2].target
          /\ sessions[s1].seen = sessions[s2].seen
          /\ sessions[s1].amount + sessions[s2].amount > sessions[s1].seen
          /\ get_balance(money_transactions, sessions[s1].target)
                = sessions[s1].seen - sessions[s2].amount
          /\ sessions'[s1] # sessions[s1])
           => (/\ sessions'[s1].pc = "failed"
               /\ money_transactions' = money_transactions
               /\ get_balance(money_transactions', sessions[s1].target) >= 0)]_vars

\* C19: add_payment_history and update_payment on a transaction_id that names
\* no poultry transaction report failure and leave payment_history and
\* poultry_transactions unchanged.
C19_UnknownTransactionRejected ==
    [][(/\ last'.op \in {"add_payment_history", "update_payment"}
        /\ ~ HasTransaction(poultry_transactions, last'.target))
       => (/\ ~ last'.ok
           /\ payment_history' = payment_history
           /\ poultry_transactions' = poultry_transactions)]_vars

\* C19 witness: a payment for an unknown id was refused while another
\* transaction is stored
C19_Witness ==
    /\ last.op = "add_payment_history"
    /\ ~ last.ok
    /\ poultry_transactions # {}
    /\ ~ HasTransaction(poultry_transactions, last.target)

\* C20: usernames are unique in every state, and add_user with a username
\* already present returns no id and leaves the users table unchanged.
C20_UsernamesUnique ==
    [][/\ (last'.op = "add_user" /\ \E u \in users : u.username = last'.username)
          => (~ last'.ok /\ users' = users /\ next_user_id' = next_user_id)
       /\ \A u \in users' : \A v \in users' : u.username = v.username => u = v]_vars

\* C20 witness: a caller allowed to create users asked for a name that is taken
C20_Witness ==
    /\ last.op = "add_user"
    /\ ~ last.ok
    /\ (last.creator = NoId \/ IsAdmin(users, last.creator))
    /\ \E u \in users : u.username = last.username /\ u.role # last.role

\* C21: authenticate_user(u, p) returns the id and role of the stored user
\* named u when p is the password that user was created with, and None for a
\* password whose hash differs and for a username that is unknown or deleted;
\* in particular a login that follows the successful add_user(u, p, role)
\* returns the new id and role for p and None for any other password.
C21_AuthenticationRoundTrip ==
    [][last'.op = "authenticate_user" =>
         /\ \A u \in users :
               u.username = last'.username =>
                 IF u.password_hash = Sha256Hex(last'.password)
                 THEN last'.result = {[user_id |-> u.user_id, role |-> u.role]}
                 ELSE last'.result = {}
         /\ (~ \E u \in users : u.username = last'.username) => last'.result = {}
         /\ (last.op = "add_user" /\ last.ok /\ last.username = last'.username) =>
               IF last'.password = last.password
               THEN \E r \in last'.result : r.role = last.role
               ELSE last'.result = {}]_vars

\* C21 witness: the login of a stored user with another password was refused
C21_Witness ==
    /\ last.op = "authenticate_user"
    /\ \E u \in users : /\ u.username = last.username
                         /\ u.password_hash # Sha256Hex(last.password)
    /\ last.result = {}

C23_LedgerAppendOnly ==
    [][/\ Len(money_transactions') >= Len(money_transactions)
       /\ \A i \in DOMAIN money_transactions :
             /\ money_transactions'[i].from_user_id = money_transactions[i].from_user_id
             /\ money_transactions'[i].to_user_id = money_transactions[i].to_user_id
             /\ money_transactions'[i].amount = money_transactions[i].amount
       /\ last'.op = "verify_and_fix_balances" =>
             \A p \in Parties :
                 /\ get_balance(money_transactions', p)
                       = get_balance(money_transactions, p)
                 /\ get_user_balance(money_transactions', p)
                       = get_user_balance(money_transactions, p)]_vars

\* C23 witness: a pass that ran has written the computed balance of a stored
\* user into that user's most recent row, and the ledger holds two rows
C23_Witness ==
    /\ last.op = "verify_and_fix_balances" /\ last.ok
    /\ Len(money_transactions) >= 2
    /\ \E u \in users :
          LET i == LastRowNaming(money_transactions, u.user_id)
          IN /\ i # 0
             /\ money_transactions[i].remaining_balance
                   = SumCase(money_transactions, u.user_id)

\* C24: a distribution is all-or-nothing: whenever the ledger holds the row
\* that credits the recipient of a distribution, it also holds, after that row,
\* the adjustment row that takes the same amount out of system money
C24_DistributionAllOrNothing ==
    \A s \in Sessions :
        (sessions[s].op = "distribute" /\ sessions[s].target # 0)
        => \E j \in DOMAIN money_transactions :
              /\ j > sessions[s].target
              /\ money_transactions[j].transaction_type = "system_input"
              /\ money_transactions[j].from_user_id # SYSTEM
              /\ money_transactions[j].to_user_id = SYSTEM
              /\ money_transactions[j].amount = sessions[s].amount

\* C29: the add_money_transaction step of a distribution raises the balance of
\* the selected user by the amount and leaves every other stored user's balance
\* as it was; the update_system_money step, when it reports success, lowers
\* the money get_system_money reports by the amount and leaves the balance of
\* every stored user other than the selected one as it was
C29_DistributionMovesAmount ==
    [][/\ (last'.op = "distribute" /\ last'.step = "insert")
          => \A w \in users :
                get_user_balance(money_transactions', w.user_id)
                   = get_user_balance(money_transactions, w.user_id)
                        + (IF w.user_id = last'.to THEN last'.amount ELSE 0)
       /\ (last'.op = "distribute" /\ last'.step = "update" /\ last'.ok)
          => /\ get_system_money(users', money_transactions')
                   = get_system_money(users, money_transactions) - last'.amount
             /\ \A w \in users :
                   w.user_id # last'.to
                   => get_user_balance(money_transactions', w.user_id)
                         = get_user_balance(money_transactions, w.user_id)]_vars

\* C25: only an admin creates users: every add_user call that inserts a row
\* names as its creator a stored user whose role is admin, and a call with any
\* other creator, or with none, leaves the users table as it was
C25_OnlyAdminCreatesUsers ==
    [][last'.op = "add_user"
          => /\ last'.ok => IsAdmin(users, last'.creator)
             /\ ~ IsAdmin(users, last'.creator) => users' = users]_vars

RECURSIVE SumBalances(_, _)
\* the sum of get_user_balance over the parties ps
SumBalances(mt, ps) ==
    IF ps = {} THEN 0
    ELSE LET p == CHOOSE q \in ps : TRUE
         IN get_user_balance(mt, p) + SumBalances(mt, ps \ {p})

\* C26: money is conserved: after any sequence of add_money_transaction and
\* update_system_money calls the balances get_user_balance reports for the
\* system account 0 and for every user id add up to 0
C26_MoneyConserved == SumBalances(money_transactions, Parties) = 0

\* C27: get_balance, which the sufficiency check uses, and get_user_balance,
\* which is shown to the user, return the same value for every party on every
\* reachable ledger, rows with from_user_id = to_user_id included
C27_BalanceComputationsAgree ==
    \A p \in Parties :
        get_balance(money_transactions, p) = get_user_balance(money_transactions, p)

\* C28: payment history never dangles: in every reachable state the
\* transaction_id of every payment_history row is the id of a stored poultry
\* transaction, also after delete_transaction has deleted a transaction that
\* has payment history
C28_PaymentHistoryNeverDangles ==
    \A i \in DOMAIN payment_history :
        HasTransaction(poultry_transactions, payment_history[i].transaction_id)

\* C30: with an admin stored, an "Add Money to System" call,
\* add_money_transaction from 0 to 0 with transaction_type system_input and
\* amount a > 0, that reports success raises the money get_system_money
\* reports by a
C30_AddMoneyRaisesSystemMoney ==
    [][(/\ last'.op = "add_money_transaction"
        /\ last'.from = SYSTEM /\ last'.to = SYSTEM
        /\ last'.type = "system_input"
        /\ last'.ok
        /\ AdminIds(users) # {})
       => get_system_money(users', money_transactions')
             = get_system_money(users, money_transactions) + last'.amount]_vars

====
